---- MODULE Spec2Model ----
(***************************************************************************)
(* A model of examples/td_agent.py of gym-tictactoe: the tabular TD(0)     *)
(* agent (value table, epsilon-greedy policy, backup), the training loop,  *)
(* the model file, and the grid search that runs train+benchmark trials in *)
(* a process pool.                                                         *)
(*                                                                         *)
(* Numbers.  Python floats are held in fixed point: the integer v stands   *)
(* for v / UNIT.  A board, in the source a tuple of nine cell codes, is    *)
(* held as the base-3 number whose digit c is the code of cell c, cells    *)
(* and actions numbered from 0 as in the source; a state is the pair       *)
(* <<board, mark to move>>.                                                *)
(*                                                                         *)
(* Randomness.  random.random() and random.choice() are nondeterministic   *)
(* draws.  random.choice draws among the first MaxPick candidates, and a   *)
(* run makes at most MaxRandom draws that leave the default (taking the    *)
(* exploring branch, or breaking a tie by another index than the first).   *)
(*                                                                         *)
(* Grid search.  Pool() starts os.cpu_count() worker processes, and        *)
(* starmap_async cuts the trials into chunks as multiprocessing.pool does: *)
(* a worker takes a chunk off the task queue, runs its trials one after    *)
(* another and sends the results of the whole chunk, or the first          *)
(* exception, to the parent, whose result handler thread stores them in    *)
(* the MapResult and counts the chunk off _number_left.  A worker process  *)
(* keeps its module globals from one trial to the next.  What a training   *)
(* or benchmark run does to the store is held as the set of states it      *)
(* touches.                                                                *)
(***************************************************************************)
EXTENDS Integers, Sequences, FiniteSets, TLC

VARIABLES
    \* ---- one process running _learn / save_model / load_model
    st_values,      \* the module global st_values: state -> value
    st_visits,      \* the module global st_visits: state -> visit count
    st_sets,        \* history: state -> calls of set_state_value on it
    agents,         \* mark -> TDAgent object of _learn
    env,            \* the TicTacToeEnv object
    pc,             \* position of the process in _learn and after
    max_episode, epsilon, alpha,    \* the arguments of _learn
    i,              \* for i in range(max_episode)
    start_mark,     \* local of _learn
    state, reward,  \* locals of _learn's episode loop
    nrandom,        \* random draws so far that left the default outcome
    terminals,      \* history: <<final state, reward>> of the episodes done
    model_file,     \* the saved model file, NoFile before save_model
    minfo,          \* what load_model returned
    before_save,    \* history: the store as save_model found it
    \* ---- calls of TDAgent's methods from outside the training loop
    last_call,      \* history: the last call and the store it found
    ncalls,         \* the calls made so far
    \* ---- gridsearch: the parent process, its pool and the pool's workers
    episodes, epsilons, alphas,     \* the three ranges of the grid
    nprocs,         \* os.cpu_count(): the size Pool() takes
    failing,        \* the trials whose _learnbench raises (an I/O error)
    g_pc,           \* position of the parent in gridsearch
    args,           \* the argument lists given to starmap_async
    total, prev_left, pbar_n,       \* locals of gridsearch; pbar_n is pbar.n
    tasks,          \* the pool's task queue: chunks not yet taken
    workers,        \* worker -> the chunk it runs and how far it is
    wstore,         \* worker -> the states in st_values of that process
    outqueue,       \* results of chunks on their way to the parent
    result,         \* the MapResult object of starmap_async
    results_file,   \* the lines of gsmodels/result.json
    model_files,    \* the names of the model files written
    raised,         \* the exception gridsearch ended with, if any
    dirty_start,    \* history: a trial started in a store that held states
    foreign_saved,  \* history: a saved model held a state its trial did not touch
    completed,      \* history: trials run in the chunks the parent has got
    polled,         \* history: completed, as of the last poll that counted
    out_of_order,   \* history: a later chunk was delivered before an earlier
    \* ---- _bench
    results,        \* local of _bench: the rewards of the episodes done
    loaded          \* history: the store as _bench's load_model left it

learn_vars == <<st_values, st_visits, st_sets, agents, env, pc, max_episode, epsilon,
                alpha, i, start_mark, state, reward, nrandom, terminals,
                model_file, minfo, before_save>>

call_vars == <<last_call, ncalls>>

grid_vars == <<episodes, epsilons, alphas, nprocs, failing, g_pc, args, total,
               prev_left, pbar_n, tasks, workers, wstore, outqueue, result,
               results_file, model_files, raised, dirty_start, foreign_saved,
               completed, polled, out_of_order>>

bench_vars == <<results, loaded>>

vars == <<learn_vars, call_vars, grid_vars, bench_vars>>

----------------------------------------------------------------------------
\* Bounds of the model.

\* the largest max_episode a run is given
MaxEpisode == 3
\* the random draws of one run that may leave the default outcome
MaxRandom == 2
\* random.choice draws among the first MaxPick elements of its argument
MaxPick == 2
\* the calls of TDAgent's methods one run of SpecCalls makes
MaxCalls == 3
\* the backups one run of SpecBackup repeats
MaxBackups == 3
\* the calls of greedy_action one run of SpecGreedy makes
MaxGreedy == 2
\* the state lines of a model file read under SpecLoad
MaxLines == 2
\* the episodes of training before a benchmark, and of the benchmark
MaxLearn == 2
MaxBench == 2

----------------------------------------------------------------------------
\* Fixed point.

\* the integer standing for 1.0
UNIT == 10000

Min2(a, b) == IF a < b THEN a ELSE b

Abs(x) == IF x < 0 THEN -x ELSE x

\* x * y of two fixed-point numbers, rounded to the nearest representable
\* number as a float product is
FMul(x, y) ==
    LET p == x * y
        a == IF p < 0 THEN -p ELSE p
        q == (a + (UNIT \div 2)) \div UNIT
    IN  IF p < 0 THEN -q ELSE q

----------------------------------------------------------------------------
\* gym_tictactoe.env, the collaborator td_agent.py imports.

NUM_LOC == 9
O_REWARD == 1
X_REWARD == -1
NO_REWARD == 0

Marks == {"O", "X"}

tocode(mark) == IF mark = "O" THEN 1 ELSE 2

next_mark(mark) == IF mark = "O" THEN "X" ELSE "O"

\* the eight lines of the board, as sets of 0-based cells
WinLines ==
    { {0, 1, 2}, {3, 4, 5}, {6, 7, 8},
      {0, 3, 6}, {1, 4, 7}, {2, 5, 8},
      {0, 4, 8}, {2, 4, 6} }

Pow3 == <<1, 3, 9, 27, 81, 243, 729, 2187, 6561>>

\* board[c], the code of cell c
Cell(board, c) == (board \div Pow3[c + 1]) % 3

\* the board with code t put into the empty cell c
PutCell(board, c, t) == board + t * Pow3[c + 1]

HasLine(board, t) == \E l \in WinLines : \A c \in l : Cell(board, c) = t

\* -1: in progress, 0: draw, 1 or 2: the code of the winning mark
check_game_status(board) ==
    IF HasLine(board, 1) THEN 1
    ELSE IF HasLine(board, 2) THEN 2
    ELSE IF \E c \in 0..(NUM_LOC - 1) : Cell(board, c) = 0 THEN -1
    ELSE 0

after_action_state(s, action) ==
    <<PutCell(s[1], action, tocode(s[2])), next_mark(s[2])>>

EmptyBoard == 0

\* env.reset(): an empty board, the start mark to move
EnvReset(e) ==
    [e EXCEPT !.board = EmptyBoard, !.mark = e.start_mark, !.done = FALSE]

EnvObs(e) == <<e.board, e.mark>>

RECURSIVE FreeFrom(_, _)
FreeFrom(board, c) ==
    IF c >= NUM_LOC THEN <<>>
    ELSE IF Cell(board, c) = 0 THEN <<c>> \o FreeFrom(board, c + 1)
    ELSE FreeFrom(board, c + 1)

\* env.available_actions(): the empty cells in increasing order
available_actions(e) == FreeFrom(e.board, 0)

\* env.step(action): [env, obs, reward, done]
EnvStep(e, action) ==
    IF e.done
    THEN [env |-> e, obs |-> EnvObs(e), reward |-> 0, done |-> TRUE]
    ELSE
        LET board2 == PutCell(e.board, action, tocode(e.mark))
            status == check_game_status(board2)
            done2  == status >= 0
            r      == IF status \in {1, 2}
                      THEN (IF e.mark = "O" THEN O_REWARD ELSE X_REWARD)
                      ELSE NO_REWARD
            e2     == [e EXCEPT !.board = board2, !.done = done2,
                                !.mark = next_mark(e.mark)]
        IN  [env |-> e2, obs |-> EnvObs(e2), reward |-> r, done |-> done2]

----------------------------------------------------------------------------
\* The value table.  A store is [values |-> f, visits |-> g, sets |-> h]:
\* the two module globals st_values and st_visits of one process, and with
\* them the history h of the calls of set_state_value, which the program
\* does not keep and nothing in it reads.

DEFAULT_VALUE == 0
EPSILON == 3000
ALPHA == 4000

EmptyFn == [x \in {} |-> 0]

EmptyStore == [values |-> EmptyFn, visits |-> EmptyFn, sets |-> EmptyFn]

\* st_visits is a defaultdict: a missing key reads as 0
VisitsOf(st, s) == IF s \in DOMAIN st.visits THEN st.visits[s] ELSE 0

Put(f, k, v) == IF k \in DOMAIN f THEN [f EXCEPT ![k] = v] ELSE (k :> v) @@ f

\* the calls of set_state_value made on s so far
SetsOf(st, s) == IF s \in DOMAIN st.sets THEN st.sets[s] ELSE 0

\* set_state_value writing the value without counting the visit
set_state_value_NoCount(st, s, value) ==
    [values |-> Put(st.values, s, value),
     visits |-> Put(st.visits, s, 1),
     sets   |-> Put(st.sets, s, SetsOf(st, s) + 1)]

set_state_value(st, s, value) ==
    [values |-> Put(st.values, s, value),
     visits |-> Put(st.visits, s, VisitsOf(st, s) + 1),
     sets   |-> Put(st.sets, s, SetsOf(st, s) + 1)]

\* ask_value without the test for a win
InitialValue_NoWin(mark, s) == DEFAULT_VALUE

\* the value ask_value gives a state that is not in st_values
InitialValue(mark, s) ==
    IF check_game_status(s[1]) > 0
    THEN (IF mark = "O" THEN O_REWARD ELSE X_REWARD) * UNIT
    ELSE DEFAULT_VALUE

\* ask_value without its test  state not in st_values
ask_value_Always(st, mark, s) ==
    set_state_value(st, s, InitialValue(mark, s))

\* TDAgent.ask_value: the store after the call
ask_value(st, mark, s) ==
    IF s \notin DOMAIN st.values
    THEN set_state_value(st, s, InitialValue(mark, s))
    ELSE st

\* TDAgent.ask_value: the value the call returns
AskResult(st, mark, s) == ask_value(st, mark, s).values[s]

\* backup stepping by the whole difference on top of alpha times it
backup_Over(st, agent, s, ns, r) ==
    LET st1  == ask_value(st, agent.mark, s)
        val  == st1.values[s]
        st2  == ask_value(st1, agent.mark, ns)
        nval == st2.values[ns]
        diff == nval - val
        val2 == val + FMul(agent.alpha, diff) + diff
    IN  set_state_value(st2, s, val2)

\* backup stepping by twice the difference, whatever alpha is
backup_Past(st, agent, s, ns, r) ==
    LET st1  == ask_value(st, agent.mark, s)
        val  == st1.values[s]
        st2  == ask_value(st1, agent.mark, ns)
        nval == st2.values[ns]
        diff == nval - val
        val2 == val + 2 * diff
    IN  set_state_value(st2, s, val2)

\* TDAgent.backup
backup(st, agent, s, ns, r) ==
    LET st1  == ask_value(st, agent.mark, s)
        val  == st1.values[s]
        st2  == ask_value(st1, agent.mark, ns)
        nval == st2.values[ns]
        diff == nval - val
        val2 == val + FMul(agent.alpha, diff)
    IN  set_state_value(st2, s, val2)

\* the loop of greedy_action over ava_actions: acc is [store, vals], the
\* store and the list ava_values so far
RECURSIVE AskAll(_, _, _, _)
AskAll(acc, mark, s, actions) ==
    IF actions = <<>> THEN acc
    ELSE LET nstate == after_action_state(s, Head(actions))
             st2    == ask_value(acc.store, mark, nstate)
         IN  AskAll([store |-> st2,
                     vals  |-> Append(acc.vals, st2.values[nstate])],
                    mark, s, Tail(actions))

SeqMax(vals) == CHOOSE v \in {vals[k] : k \in DOMAIN vals} :
                    \A k \in DOMAIN vals : vals[k] <= v

SeqMin(vals) == CHOOSE v \in {vals[k] : k \in DOMAIN vals} :
                    \A k \in DOMAIN vals : vals[k] >= v

RECURSIVE IndicesFrom(_, _, _)
IndicesFrom(vals, best, k) ==
    IF k > Len(vals) THEN <<>>
    ELSE IF vals[k] = best THEN <<k - 1>> \o IndicesFrom(vals, best, k + 1)
    ELSE IndicesFrom(vals, best, k + 1)

\* best_val_indices giving every index
best_val_indices_All(vals, fn) == [k \in 1..Len(vals) |-> k - 1]

\* best_val_indices(values, fn), fn given as "max" or "min": 0-based indices
best_val_indices(vals, fn) ==
    IndicesFrom(vals, IF fn = "max" THEN SeqMax(vals) ELSE SeqMin(vals), 1)

\* greedy_action up to the random tie break: the store after the asks and
\* the indices among which random.choice draws
GreedyIndices(st, agent, s, actions) ==
    LET asked == AskAll([store |-> st, vals |-> <<>>], agent.mark, s, actions)
    IN  [store   |-> asked.store,
         indices |-> best_val_indices(asked.vals,
                        IF agent.mark = "O" THEN "max" ELSE "min")]

\* greedy_action asking for the value of the state itself before its assert
greedy_action_Late(st, agent, s, actions) ==
    IF Len(actions) = 0
    THEN [error |-> "AssertionError", store |-> ask_value(st, agent.mark, s),
          indices |-> <<>>]
    ELSE [error   |-> "none",
          store   |-> GreedyIndices(st, agent, s, actions).store,
          indices |-> GreedyIndices(st, agent, s, actions).indices]

\* TDAgent.greedy_action from its assert to the random tie break: the error
\* raised if any, the store after, the indices random.choice draws among
greedy_action(st, agent, s, actions) ==
    IF Len(actions) = 0
    THEN [error |-> "AssertionError", store |-> st, indices |-> <<>>]
    ELSE [error   |-> "none",
          store   |-> GreedyIndices(st, agent, s, actions).store,
          indices |-> GreedyIndices(st, agent, s, actions).indices]

\* TDAgent.__init__
TDAgent(mark, eps, alp) ==
    [mark |-> mark, alpha |-> alp, epsilon |-> eps, episode_rate |-> UNIT]

\* egreedy_policy's test  e < self.epsilon * self.episode_rate
Explores(agent, e) == e < FMul(agent.epsilon, agent.episode_rate)

\* random.random() is in [0.0, 1.0): its two extremes
RandomDraws == {0, UNIT - 1}

Store == [values |-> st_values, visits |-> st_visits, sets |-> st_sets]

----------------------------------------------------------------------------
\* The model file: save_model and load_model.  Text is a sequence of
\* characters (one-character strings, or a short token); a line of the file
\* is the sequence of its tab-separated fields.

DigitChars == <<"0", "1", "2", "3", "4", "5", "6", "7", "8", "9">>

DigitVal(ch) == CHOOSE d \in 0..9 : DigitChars[d + 1] = ch

\* '{}'.format(n) of an int n >= 0
RECURSIVE FormatInt(_)
FormatInt(n) ==
    IF n < 10 THEN <<DigitChars[n + 1]>>
    ELSE FormatInt(n \div 10) \o <<DigitChars[(n % 10) + 1]>>

\* eval of the decimal digits of an int
RECURSIVE EvalInt(_)
EvalInt(txt) ==
    IF txt = <<>> THEN 0
    ELSE EvalInt(SubSeq(txt, 1, Len(txt) - 1)) * 10 + DigitVal(txt[Len(txt)])

\* n / d rounded to the nearest integer, a tie to the even one
RoundHalfEven(n, d) ==
    LET q == n \div d
        r == n % d
    IN  IF 2 * r > d THEN q + 1
        ELSE IF 2 * r < d THEN q
        ELSE IF q % 2 = 0 THEN q ELSE q + 1

\* '{:0.3f}'.format(value): sign, whole part, point, three decimals
Format3f(v) ==
    LET t == RoundHalfEven(Abs(v) * 1000, UNIT)
        f == t % 1000
    IN  (IF v < 0 THEN <<"-">> ELSE <<>>)
        \o FormatInt(t \div 1000) \o <<".">>
        \o <<DigitChars[(f \div 100) + 1], DigitChars[((f \div 10) % 10) + 1],
             DigitChars[(f % 10) + 1]>>

\* repr of a float, as json.dumps writes it: every digit the number has
FloatRepr(v) ==
    LET a == Abs(v)
        f == a % UNIT
    IN  (IF v < 0 THEN <<"-">> ELSE <<>>)
        \o FormatInt(a \div UNIT) \o <<".">>
        \o <<DigitChars[(f \div 1000) + 1], DigitChars[((f \div 100) % 10) + 1],
             DigitChars[((f \div 10) % 10) + 1], DigitChars[(f % 10) + 1]>>

\* the decimals of a float literal, scale being the weight of the point
RECURSIVE FracVal(_, _)
FracVal(txt, scale) ==
    IF txt = <<>> THEN 0
    ELSE DigitVal(Head(txt)) * (scale \div 10) + FracVal(Tail(txt), scale \div 10)

PointAt(txt) == CHOOSE k \in 1..Len(txt) : txt[k] = "."

\* eval of a float literal
EvalFloat(txt) ==
    LET neg  == txt[1] = "-"
        body == IF neg THEN Tail(txt) ELSE txt
        dot  == PointAt(body)
        mag  == EvalInt(SubSeq(body, 1, dot - 1)) * UNIT
                + FracVal(SubSeq(body, dot + 1, Len(body)), UNIT)
    IN  IF neg THEN -mag ELSE mag

RECURSIVE BoardText(_, _)
BoardText(board, c) ==
    IF c = NUM_LOC - 1 THEN <<DigitChars[Cell(board, c) + 1]>>
    ELSE <<DigitChars[Cell(board, c) + 1], ", ">> \o BoardText(board, c + 1)

\* '{}'.format(state) of the tuple (board, mark)
StateText(s) ==
    <<"(", "(">> \o BoardText(s[1], 0)
    \o <<")", ", ", IF s[2] = "O" THEN "'O'" ELSE "'X'", ")">>

\* the board whose cells from c on are the digits of txt from position k on
RECURSIVE EvalBoard(_, _, _)
EvalBoard(txt, k, c) ==
    IF txt[k] = ")" THEN 0
    ELSE IF txt[k] = ", " THEN EvalBoard(txt, k + 1, c)
    ELSE PutCell(EvalBoard(txt, k + 1, c + 1), c, DigitVal(txt[k]))

\* eval of the text of a state
EvalState(txt) ==
    <<EvalBoard(txt, 3, 0),
      IF txt[Len(txt) - 1] = "'O'" THEN "O" ELSE "X">>

\* json.dumps(info)
JsonDumps(info) ==
    [type |-> <<"\"">> \o <<info.type>> \o <<"\"">>,
     max_episode |-> FormatInt(info.max_episode),
     epsilon |-> FloatRepr(info.epsilon),
     alpha |-> FloatRepr(info.alpha)]

\* json.loads(line)
JsonLoads(txt) ==
    [type |-> txt.type[2],
     max_episode |-> EvalInt(txt.max_episode),
     epsilon |-> EvalFloat(txt.epsilon),
     alpha |-> EvalFloat(txt.alpha)]

\* the file save_model writes: the info line, then one line per state
save_model(st, nepisode, eps, alp) ==
    [head  |-> JsonDumps([type |-> "td", max_episode |-> nepisode,
                          epsilon |-> eps, alpha |-> alp]),
     lines |-> { <<StateText(s), Format3f(st.values[s]),
                   FormatInt(VisitsOf(st, s))>> : s \in DOMAIN st.values }]

\* the lines of the file as load_model evaluates them:
\* <<state, val, vcnt>> of each
EvalLines(lines) ==
    { <<EvalState(elms[1]), EvalFloat(elms[2]), EvalInt(elms[3])>> :
        elms \in lines }

\* the line of the file that is about state s
LineOf(evald, s) == CHOOSE e \in evald : e[1] = s

\* the loop of load_model over the evaluated lines: the store after. The file
\* has one line for a state, so the order of the lines does not matter
LoadLines(st, evald, keys) ==
    [values |-> [s \in DOMAIN st.values \cup keys |->
                    IF s \in keys THEN LineOf(evald, s)[2] ELSE st.values[s]],
     visits |-> [s \in DOMAIN st.visits \cup keys |->
                    IF s \in keys THEN LineOf(evald, s)[3] ELSE st.visits[s]],
     sets   |-> st.sets]

\* load_model(filename): [store, info]
load_model(st, file) ==
    [store |-> LoadLines(st, EvalLines(file.lines),
                         {e[1] : e \in EvalLines(file.lines)}),
     info  |-> JsonLoads(file.head)]

\* one pass of load_model's loop over the lines, elms being the fields of
\* the line: the error raised if any, and the store after.  elms[2] of a
\* line with fewer than three fields raises IndexError before either
\* assignment; fields after the third are never read
LoadLine(st, elms) ==
    IF Len(elms) < 3
    THEN [error |-> "IndexError", store |-> st]
    ELSE [error |-> "none",
          store |-> [values |-> Put(st.values, EvalState(elms[1]),
                                    EvalFloat(elms[2])),
                     visits |-> Put(st.visits, EvalState(elms[1]),
                                    EvalInt(elms[3])),
                     sets   |-> st.sets]]

NoFile == [head |-> <<>>, lines |-> {}]

NoInfo == [type |-> "", max_episode |-> 0, epsilon |-> 0, alpha |-> 0]

----------------------------------------------------------------------------
\* _learn(max_episode, epsilon, alpha, save_file) and what follows it.

Epsilons == {EPSILON}
Alphas == {ALPHA, 625}

NoState == <<EmptyBoard, "O">>

NoCall == [op |-> "none"]

\* no exception: an exception is what it says and the trials it names
NoError == [error |-> "none", trials |-> {}]

NoResult ==
    [chunksize |-> 0, number_left |-> 0, success |-> TRUE, value |-> <<>>,
     error |-> NoError, ready |-> FALSE]

\* gridsearch is not running
GridIdle ==
    /\ episodes = <<>> /\ epsilons = <<>> /\ alphas = <<>>
    /\ nprocs = 0 /\ failing = {}
    /\ g_pc = "idle"
    /\ args = <<>>
    /\ total = 0 /\ prev_left = 0 /\ pbar_n = 0
    /\ tasks = <<>>
    /\ workers = <<>> /\ wstore = <<>>
    /\ dirty_start = FALSE /\ foreign_saved = FALSE
    /\ outqueue = <<>>
    /\ result = NoResult
    /\ results_file = <<>>
    /\ model_files = {}
    /\ raised = NoError
    /\ completed = 0 /\ polled = 0
    /\ out_of_order = FALSE

Init ==
    /\ st_values = EmptyFn
    /\ st_visits = EmptyFn
    /\ st_sets = EmptyFn
    /\ max_episode \in 0..MaxEpisode
    /\ epsilon \in Epsilons
    /\ alpha \in Alphas
    /\ agents = [m \in Marks |-> TDAgent(m, epsilon, alpha)]
    /\ env = [board |-> EmptyBoard, mark |-> "O", done |-> FALSE,
              start_mark |-> "O"]
    /\ pc = "episode"
    /\ i = 0
    /\ start_mark = "O"
    /\ state = NoState
    /\ reward = 0
    /\ nrandom = 0
    /\ terminals = {}
    /\ model_file = NoFile
    /\ minfo = NoInfo
    /\ before_save = EmptyStore
    /\ last_call = NoCall
    /\ ncalls = 0
    /\ results = <<>>
    /\ loaded = EmptyStore
    /\ GridIdle

\* the head of  for i in range(max_episode)  and the lines up to the while
StartEpisode ==
    /\ pc = "episode"
    /\ i < max_episode
    /\ agents' = [m \in Marks |->
                    [agents[m] EXCEPT
                        !.episode_rate = ((i + 1) * UNIT) \div max_episode]]
    /\ env' = EnvReset([env EXCEPT !.start_mark = start_mark])
    /\ state' = EnvObs(env')
    /\ pc' = "turn"
    /\ UNCHANGED <<st_values, st_visits, st_sets, max_episode, epsilon, alpha, i,
                   start_mark, reward, nrandom, terminals, model_file, minfo,
                   before_save>>
    /\ UNCHANGED <<call_vars, grid_vars, bench_vars>>

\* what one pass of the while loop does once the action is drawn: step,
\* backup, and the set of the terminal value when the episode is done
TurnWith(st, action, cost) ==
    /\ nrandom + cost <= MaxRandom
    /\ nrandom' = nrandom + cost
    /\ \E r \in {EnvStep(env, action)} :
       \E st1 \in {backup(st, agents[state[2]], state, r.obs, r.reward)} :
       \E st2 \in {IF r.done
                    THEN set_state_value(st1, state, r.reward * UNIT)
                    ELSE st1} :
            /\ env' = r.env
            /\ reward' = r.reward
            /\ st_values' = st2.values
            /\ st_visits' = st2.visits
            /\ st_sets' = st2.sets
            /\ state' = r.obs
            /\ terminals' = IF r.done
                            THEN terminals \cup {<<r.obs, r.reward>>}
                            ELSE terminals
            /\ pc' = IF r.done THEN "rotate" ELSE "turn"

\* one pass of  while not done : the exploring branch of egreedy_policy
TurnExplore ==
    /\ pc = "turn"
    /\ \E e \in RandomDraws :
        /\ Explores(agents[state[2]], e)
        /\ \E ava \in {available_actions(env)} :
           \E k \in 1..Min2(Len(ava), MaxPick) : TurnWith(Store, ava[k], 1)
    /\ UNCHANGED <<agents, max_episode, epsilon, alpha, i, start_mark,
                   model_file, minfo, before_save>>
    /\ UNCHANGED <<call_vars, grid_vars, bench_vars>>

\* one pass of  while not done : the greedy branch of egreedy_policy
TurnGreedy ==
    /\ pc = "turn"
    /\ \E e \in RandomDraws :
        /\ ~Explores(agents[state[2]], e)
        /\ \E ava \in {available_actions(env)} :
           \E g \in {GreedyIndices(Store, agents[state[2]], state, ava)} :
           \E k \in 1..Min2(Len(g.indices), MaxPick) :
                TurnWith(g.store, ava[g.indices[k] + 1],
                         IF k = 1 THEN 0 ELSE 1)
    /\ UNCHANGED <<agents, max_episode, epsilon, alpha, i, start_mark,
                   model_file, minfo, before_save>>
    /\ UNCHANGED <<call_vars, grid_vars, bench_vars>>

\* start_mark = next_mark(start_mark), and on to the next i
Rotate ==
    /\ pc = "rotate"
    /\ start_mark' = next_mark(start_mark)
    /\ i' = i + 1
    /\ pc' = "episode"
    /\ UNCHANGED <<st_values, st_visits, st_sets, agents, env, max_episode, epsilon,
                   alpha, state, reward, nrandom, terminals, model_file,
                   minfo, before_save>>
    /\ UNCHANGED <<call_vars, grid_vars, bench_vars>>

\* the loop is over: save_model(save_file, max_episode, epsilon, alpha)
SaveModel ==
    /\ pc = "episode"
    /\ i >= max_episode
    /\ model_file' = save_model(Store, max_episode, epsilon, alpha)
    /\ before_save' = Store
    /\ pc' = "saved"
    /\ UNCHANGED <<st_values, st_visits, st_sets, agents, env, max_episode, epsilon,
                   alpha, i, start_mark, state, reward, nrandom, terminals,
                   minfo>>
    /\ UNCHANGED <<call_vars, grid_vars, bench_vars>>

\* load_model of the saved file by a process whose store is ld
LoadInto(ld) ==
    \E r \in {load_model(ld, model_file)} :
        /\ st_values' = r.store.values
        /\ st_visits' = r.store.visits
        /\ st_sets' = r.store.sets
        /\ minfo' = r.info

\* learnbench: _bench loads the file in the process that trained
LoadSame ==
    /\ pc = "saved"
    /\ LoadInto(Store)
    /\ pc' = "loaded"
    /\ UNCHANGED <<agents, env, max_episode, epsilon, alpha, i, start_mark,
                   state, reward, nrandom, terminals, model_file,
                   before_save>>
    /\ UNCHANGED <<call_vars, grid_vars, bench_vars>>

\* bench, play: a new process, its store empty, loads the file
LoadFresh ==
    /\ pc = "saved"
    /\ LoadInto(EmptyStore)
    /\ pc' = "loaded"
    /\ UNCHANGED <<agents, env, max_episode, epsilon, alpha, i, start_mark,
                   state, reward, nrandom, terminals, model_file,
                   before_save>>
    /\ UNCHANGED <<call_vars, grid_vars, bench_vars>>

Next ==
    \/ StartEpisode
    \/ TurnExplore
    \/ TurnGreedy
    \/ Rotate
    \/ SaveModel
    \/ LoadSame
    \/ LoadFresh

Spec == Init /\ [][Next]_vars

----------------------------------------------------------------------------
\* TDAgent's methods called one at a time on game states, by either agent:
\* ask_value and backup as operations of the value table.

\* the state a game reaches from the empty board, start to move first
RECURSIVE StateAfter(_, _)
StateAfter(start, moves) ==
    IF moves = <<>> THEN <<EmptyBoard, start>>
    ELSE after_action_state(
            StateAfter(start, SubSeq(moves, 1, Len(moves) - 1)),
            moves[Len(moves)])

\* a game: every move goes to an empty cell of a board still in progress
RECURSIVE LegalGame(_, _)
LegalGame(start, moves) ==
    \/ moves = <<>>
    \/ LET prev == SubSeq(moves, 1, Len(moves) - 1)
           b    == StateAfter(start, prev)[1]
       IN  /\ LegalGame(start, prev)
           /\ check_game_status(b) = -1
           /\ Cell(b, moves[Len(moves)]) = 0

\* the games whose states the calls are made on: an opening, a game in
\* progress, a win of the first mark, a win of the second, a draw
SampleGames ==
    { <<>>, <<0>>, <<0, 3, 1, 4>>, <<0, 3, 1, 4, 2>>, <<0, 3, 1, 4, 8, 5>>,
      <<0, 1, 2, 4, 3, 5, 7, 6, 8>> }

SampleStates ==
    { StateAfter(m, g) : m \in Marks, g \in {g \in SampleGames : LegalGame("O", g)} }

InitCalls ==
    /\ st_values = EmptyFn
    /\ st_visits = EmptyFn
    /\ st_sets = EmptyFn
    /\ max_episode = 0
    /\ epsilon = EPSILON
    /\ alpha = ALPHA
    /\ agents = [m \in Marks |-> TDAgent(m, epsilon, alpha)]
    /\ env = [board |-> EmptyBoard, mark |-> "O", done |-> FALSE,
              start_mark |-> "O"]
    /\ pc = "calls"
    /\ i = 0
    /\ start_mark = "O"
    /\ state = NoState
    /\ reward = 0
    /\ nrandom = 0
    /\ terminals = {}
    /\ model_file = NoFile
    /\ minfo = NoInfo
    /\ before_save = EmptyStore
    /\ last_call = NoCall
    /\ ncalls = 0
    /\ results = <<>>
    /\ loaded = EmptyStore
    /\ GridIdle

\* agent.ask_value(s)
CallAskValue ==
    /\ pc = "calls"
    /\ ncalls < MaxCalls
    /\ \E m \in Marks, s \in SampleStates :
       \E st2 \in {ask_value(Store, agents[m].mark, s)} :
            /\ st_values' = st2.values
            /\ st_visits' = st2.visits
            /\ st_sets' = st2.sets
            /\ last_call' = [op |-> "ask_value", mark |-> m, state |-> s,
                             before |-> Store, ret |-> st2.values[s]]
    /\ ncalls' = ncalls + 1
    /\ UNCHANGED <<agents, env, pc, max_episode, epsilon, alpha, i,
                   start_mark, state, reward, nrandom, terminals, model_file,
                   minfo, before_save>>
    /\ UNCHANGED <<grid_vars, bench_vars>>

\* agent.backup(s, nstate, reward) for a move of the game from s
CallBackup ==
    /\ pc = "calls"
    /\ ncalls < MaxCalls
    /\ \E m \in Marks, s \in SampleStates, ns \in SampleStates :
        /\ check_game_status(s[1]) = -1
        /\ \E a \in 0..(NUM_LOC - 1) :
                Cell(s[1], a) = 0 /\ ns = after_action_state(s, a)
        /\ \E st2 \in {backup(Store, agents[m], s, ns, 0)} :
            /\ st_values' = st2.values
            /\ st_visits' = st2.visits
            /\ st_sets' = st2.sets
        /\ last_call' = [op |-> "backup", mark |-> m, state |-> s,
                         before |-> Store, ret |-> 0]
    /\ ncalls' = ncalls + 1
    /\ UNCHANGED <<agents, env, pc, max_episode, epsilon, alpha, i,
                   start_mark, state, reward, nrandom, terminals, model_file,
                   minfo, before_save>>
    /\ UNCHANGED <<grid_vars, bench_vars>>

NextCalls ==
    \/ CallAskValue
    \/ CallBackup

SpecCalls == InitCalls /\ [][NextCalls]_vars

----------------------------------------------------------------------------
\* backup repeated with the same state and next state, on a store that holds
\* a value for both (a loaded model file can hold any value).

\* the values of the two states: the rewards, zero, and values one or two
\* units of precision away from them
BackupValues == {-UNIT, 1 - UNIT, -1, 0, 1, 2, ALPHA, UNIT - 1, UNIT}

\* step sizes from 0 to 1
BackupAlphas == {0, ALPHA, UNIT}

InitBackup ==
    /\ alpha \in BackupAlphas
    /\ epsilon = EPSILON
    /\ state = StateAfter("O", <<>>)
    /\ \E v \in BackupValues, nv \in BackupValues :
            st_values = (state :> v) @@ (after_action_state(state, 0) :> nv)
    /\ st_visits = (state :> 1) @@ (after_action_state(state, 0) :> 1)
    /\ st_sets = st_visits
    /\ max_episode = 0
    /\ agents = [m \in Marks |-> TDAgent(m, epsilon, alpha)]
    /\ env = [board |-> EmptyBoard, mark |-> "O", done |-> FALSE,
              start_mark |-> "O"]
    /\ pc = "backups"
    /\ i = 0
    /\ start_mark = "O"
    /\ reward = 0
    /\ nrandom = 0
    /\ terminals = {}
    /\ model_file = NoFile
    /\ minfo = NoInfo
    /\ before_save = EmptyStore
    /\ last_call = NoCall
    /\ ncalls = 0
    /\ results = <<>>
    /\ loaded = EmptyStore
    /\ GridIdle

\* agent.backup(state, nstate, reward), once more with the same arguments
RepeatBackup ==
    /\ pc = "backups"
    /\ ncalls < MaxBackups
    /\ \E ns \in {after_action_state(state, 0)} :
       \E st2 \in {backup(Store, agents[state[2]], state, ns, 0)} :
            /\ st_values' = st2.values
            /\ st_visits' = st2.visits
            /\ st_sets' = st2.sets
            /\ last_call' = [op |-> "backup", mark |-> state[2],
                             state |-> state, next |-> ns,
                             before |-> Store, ret |-> 0]
    /\ ncalls' = ncalls + 1
    /\ UNCHANGED <<agents, env, pc, max_episode, epsilon, alpha, i,
                   start_mark, state, reward, nrandom, terminals, model_file,
                   minfo, before_save>>
    /\ UNCHANGED <<grid_vars, bench_vars>>

NextBackup == RepeatBackup

SpecBackup == InitBackup /\ [][NextBackup]_vars

----------------------------------------------------------------------------
\* greedy_action called on game states with the list of their free cells, or
\* with an empty list, on the store an episode of training has left.

\* the store after the turns of an episode of _learn whose actions, all
\* drawn by the exploring branch, were moves: backup, and the set of the
\* terminal value when the episode is done
RECURSIVE LearnMoves(_, _, _)
LearnMoves(st, s, moves) ==
    IF moves = <<>> THEN st
    ELSE LET r   == EnvStep([board |-> s[1], mark |-> s[2], done |-> FALSE,
                             start_mark |-> s[2]], Head(moves))
             st1 == backup(st, TDAgent(s[2], EPSILON, ALPHA), s, r.obs,
                           r.reward)
             st2 == IF r.done
                    THEN set_state_value(st1, s, r.reward * UNIT)
                    ELSE st1
         IN  LearnMoves(st2, r.obs, Tail(moves))

\* the stores the calls start from: empty, or after one episode
LearnedStores ==
    {EmptyStore} \cup
    { LearnMoves(EmptyStore, StateAfter("O", <<>>), g) :
        g \in {g \in SampleGames :
                    LegalGame("O", g)
                    /\ check_game_status(StateAfter("O", g)[1]) >= 0} }

InitGreedy ==
    /\ \E st \in LearnedStores :
            st_values = st.values /\ st_visits = st.visits
            /\ st_sets = st.sets
    /\ max_episode = 0
    /\ epsilon = EPSILON
    /\ alpha = ALPHA
    /\ agents = [m \in Marks |-> TDAgent(m, epsilon, alpha)]
    /\ env = [board |-> EmptyBoard, mark |-> "O", done |-> FALSE,
              start_mark |-> "O"]
    /\ pc = "greedy"
    /\ i = 0
    /\ start_mark = "O"
    /\ state = NoState
    /\ reward = 0
    /\ nrandom = 0
    /\ terminals = {}
    /\ model_file = NoFile
    /\ minfo = NoInfo
    /\ before_save = EmptyStore
    /\ last_call = NoCall
    /\ ncalls = 0
    /\ results = <<>>
    /\ loaded = EmptyStore
    /\ GridIdle

\* agent.greedy_action(s, ava_actions): the call raises, or returns the
\* action at an index random.choice draws
CallGreedy ==
    /\ pc = "greedy"
    /\ ncalls < MaxGreedy
    /\ \E m \in Marks, s \in SampleStates :
       \E ava \in {FreeFrom(s[1], 0), <<>>} :
       \E g \in {greedy_action(Store, agents[m], s, ava)} :
            /\ st_values' = g.store.values
            /\ st_visits' = g.store.visits
            /\ st_sets' = g.store.sets
            /\ IF g.error # "none"
               THEN last_call' = [op |-> "greedy_action", mark |-> m,
                                  state |-> s, actions |-> ava,
                                  before |-> Store, error |-> g.error,
                                  returned |-> <<>>]
               ELSE \E k \in DOMAIN g.indices :
                    last_call' = [op |-> "greedy_action", mark |-> m,
                                  state |-> s, actions |-> ava,
                                  before |-> Store, error |-> "none",
                                  returned |-> <<ava[g.indices[k] + 1]>>]
    /\ ncalls' = ncalls + 1
    /\ UNCHANGED <<agents, env, pc, max_episode, epsilon, alpha, i,
                   start_mark, state, reward, nrandom, terminals, model_file,
                   minfo, before_save>>
    /\ UNCHANGED <<grid_vars, bench_vars>>

NextGreedy == CallGreedy

SpecGreedy == InitGreedy /\ [][NextGreedy]_vars

----------------------------------------------------------------------------
\* load_model reading a file line by line, the file holding lines as
\* save_model writes them and lines with a field missing or a field added.

\* the file save_model writes after an episode won by the first mark
SavedFile ==
    save_model(LearnMoves(EmptyStore, StateAfter("O", <<>>), <<0, 3, 1, 4, 2>>),
               1, EPSILON, ALPHA)

\* a line of the file without its last field, and with one field more
ShortLine(elms) == SubSeq(elms, 1, Len(elms) - 1)
LongLine(elms) == elms \o <<FormatInt(Len(elms))>>

FileLines ==
    SavedFile.lines
    \cup {ShortLine(elms) : elms \in SavedFile.lines}
    \cup {LongLine(elms) : elms \in SavedFile.lines}

\* the files read: their state lines in the order of the file
LoadFiles ==
    UNION { [1..n -> FileLines] : n \in 1..MaxLines }

\* the store of the process that loads: new, or left by an episode
LoadStores ==
    {EmptyStore,
     LearnMoves(EmptyStore, StateAfter("O", <<>>), <<0, 3, 1, 4, 8, 5>>)}

InitLoad ==
    /\ \E st \in LoadStores :
            st_values = st.values /\ st_visits = st.visits
            /\ st_sets = st.sets
    /\ \E lines \in LoadFiles :
            model_file = [head |-> SavedFile.head, lines |-> lines]
    /\ max_episode = 0
    /\ epsilon = EPSILON
    /\ alpha = ALPHA
    /\ agents = [m \in Marks |-> TDAgent(m, epsilon, alpha)]
    /\ env = [board |-> EmptyBoard, mark |-> "O", done |-> FALSE,
              start_mark |-> "O"]
    /\ pc = "loading"
    /\ i = 0
    /\ start_mark = "O"
    /\ state = NoState
    /\ reward = 0
    /\ nrandom = 0
    /\ terminals = {}
    /\ minfo = NoInfo
    /\ before_save = EmptyStore
    /\ last_call = NoCall
    /\ ncalls = 0
    /\ results = <<>>
    /\ loaded = EmptyStore
    /\ GridIdle

\* for line in f: one line, i being the number of lines read before it; an
\* error leaves load_model
ReadLine ==
    /\ pc = "loading"
    /\ i < Len(model_file.lines)
    /\ \E r \in {LoadLine(Store, model_file.lines[i + 1])} :
            /\ st_values' = r.store.values
            /\ st_visits' = r.store.visits
            /\ st_sets' = r.store.sets
            /\ last_call' = [op |-> "load_line",
                             elms |-> model_file.lines[i + 1],
                             before |-> Store, error |-> r.error]
            /\ pc' = IF r.error = "none" THEN "loading" ELSE "load_failed"
    /\ i' = i + 1
    /\ ncalls' = ncalls + 1
    /\ UNCHANGED <<agents, env, max_episode, epsilon, alpha, start_mark,
                   state, reward, nrandom, terminals, model_file, minfo,
                   before_save>>
    /\ UNCHANGED <<grid_vars, bench_vars>>

\* the file is read to its end: return info
LoadReturn ==
    /\ pc = "loading"
    /\ i = Len(model_file.lines)
    /\ minfo' = JsonLoads(model_file.head)
    /\ pc' = "loaded"
    /\ UNCHANGED <<st_values, st_visits, st_sets, agents, env, max_episode, epsilon,
                   alpha, i, start_mark, state, reward, nrandom, terminals,
                   model_file, before_save>>
    /\ UNCHANGED <<call_vars, grid_vars, bench_vars>>

NextLoad == ReadLine \/ LoadReturn

SpecLoad == InitLoad /\ [][NextLoad]_vars

----------------------------------------------------------------------------
\* _bench after _learn: the model file is loaded by the process that trained
\* (learnbench) or by a new one (bench), and max_episode episodes are played
\* between BaseAgent('O') and TDAgent('X', 0, 0).

MODEL_FILE == "td_agent.dat"

\* examples.base_agent.BaseAgent: an agent that holds its mark and learns
\* nothing; its act returns one of the available actions
BaseAgent(mark) == [mark |-> mark]

\* _bench's agents with the epsilon of training given to the TD agent
BenchAgents_Explore == [m \in Marks |->
                IF m = "O" THEN BaseAgent("O") ELSE TDAgent("X", EPSILON, 0)]

\* agents = [BaseAgent('O'), TDAgent('X', 0, 0)]
BenchAgents == [m \in Marks |->
                IF m = "O" THEN BaseAgent("O") ELSE TDAgent("X", 0, 0)]

\* _bench keeping the start mark training ended with
BenchStartMark_Kept == start_mark

\* start_mark = 'O'  at the head of _bench
BenchStartMark == "O"

\* the rewards recorded at every step
AppendResult_Always(res, done, rew) == Append(res, rew)

\* if done: results.append(reward)
AppendResult(res, done, rew) == IF done THEN Append(res, rew) ELSE res

\* results.count(v)
Count(res, v) == Cardinality({k \in DOMAIN res : res[k] = v})

\* minfo.update(dict(base_win=o_win, td_win=x_win, draw=draw,
\* model_file=mfile))
UpdateInfo(info, res) ==
    [type        |-> info.type,
     max_episode |-> info.max_episode,
     epsilon     |-> info.epsilon,
     alpha       |-> info.alpha,
     base_win    |-> Count(res, O_REWARD),
     td_win      |-> Count(res, X_REWARD),
     draw        |-> Len(res) - Count(res, O_REWARD) - Count(res, X_REWARD),
     model_file  |-> MODEL_FILE]

\* a training run of at most MaxLearn episodes
InitBench ==
    /\ Init
    /\ max_episode <= MaxLearn
    /\ alpha = ALPHA

\* _bench from the return of load_model to the head of its loop
BenchSetup ==
    /\ pc = "loaded"
    /\ loaded' = Store
    /\ agents' = BenchAgents
    /\ start_mark' = BenchStartMark
    /\ env' = [board |-> EmptyBoard, mark |-> start_mark', done |-> FALSE,
               start_mark |-> start_mark']
    /\ \E n \in 0..MaxBench : max_episode' = n
    /\ i' = 0
    /\ results' = <<>>
    /\ pc' = "bench_episode"
    /\ UNCHANGED <<st_values, st_visits, st_sets, epsilon, alpha, state,
                   reward, nrandom, terminals, model_file, minfo,
                   before_save>>
    /\ UNCHANGED <<call_vars, grid_vars>>

\* the head of _bench's  for i in range(max_episode)  up to the while
BenchStart ==
    /\ pc = "bench_episode"
    /\ i < max_episode
    /\ env' = EnvReset([env EXCEPT !.start_mark = start_mark])
    /\ state' = EnvObs(env')
    /\ pc' = "bench_turn"
    /\ UNCHANGED <<st_values, st_visits, st_sets, agents, max_episode,
                   epsilon, alpha, i, start_mark, reward, nrandom, terminals,
                   model_file, minfo, before_save>>
    /\ UNCHANGED <<call_vars, grid_vars, bench_vars>>

\* what one pass of _bench's while loop does once the action is drawn
BenchStep(st, action, cost) ==
    /\ nrandom + cost <= MaxRandom
    /\ nrandom' = nrandom + cost
    /\ \E r \in {EnvStep(env, action)} :
            /\ env' = r.env
            /\ reward' = r.reward
            /\ state' = r.obs
            /\ results' = AppendResult(results, r.done, r.reward)
            /\ pc' = IF r.done THEN "bench_rotate" ELSE "bench_turn"
    /\ st_values' = st.values
    /\ st_visits' = st.visits
    /\ st_sets' = st.sets

\* one pass of the while loop, BaseAgent to move
BenchTurnBase ==
    /\ pc = "bench_turn"
    /\ state[2] = "O"
    /\ \E ava \in {available_actions(env)} :
       \E k \in 1..Min2(Len(ava), MaxPick) :
            BenchStep(Store, ava[k], IF k = 1 THEN 0 ELSE 1)
    /\ last_call' = [op |-> "act", mark |-> state[2], explored |-> FALSE,
                     before |-> Store]
    /\ UNCHANGED <<agents, max_episode, epsilon, alpha, i, start_mark,
                   terminals, model_file, minfo, before_save, ncalls,
                   loaded>>
    /\ UNCHANGED grid_vars

\* one pass of the while loop, the TD agent to move: egreedy_policy
BenchTurnTD ==
    /\ pc = "bench_turn"
    /\ state[2] = "X"
    /\ \E e \in RandomDraws, ava \in {available_actions(env)} :
            /\ IF Explores(agents[state[2]], e)
               THEN \E k \in 1..Min2(Len(ava), MaxPick) :
                        BenchStep(Store, ava[k], 1)
               ELSE \E g \in {greedy_action(Store, agents[state[2]], state,
                                             ava)} :
                    \E k \in 1..Min2(Len(g.indices), MaxPick) :
                        BenchStep(g.store, ava[g.indices[k] + 1],
                                  IF k = 1 THEN 0 ELSE 1)
            /\ last_call' = [op |-> "act", mark |-> state[2],
                             explored |-> Explores(agents[state[2]], e),
                             before |-> Store]
    /\ UNCHANGED <<agents, max_episode, epsilon, alpha, i, start_mark,
                   terminals, model_file, minfo, before_save, ncalls,
                   loaded>>
    /\ UNCHANGED grid_vars

\* start_mark = next_mark(start_mark); episode += 1
BenchRotate ==
    /\ pc = "bench_rotate"
    /\ start_mark' = next_mark(start_mark)
    /\ i' = i + 1
    /\ pc' = "bench_episode"
    /\ UNCHANGED <<st_values, st_visits, st_sets, agents, env, max_episode,
                   epsilon, alpha, state, reward, nrandom, terminals,
                   model_file, minfo, before_save>>
    /\ UNCHANGED <<call_vars, grid_vars, bench_vars>>

\* the loop is over: the counts, minfo.update and the return
BenchReport ==
    /\ pc = "bench_episode"
    /\ i >= max_episode
    /\ minfo' = UpdateInfo(minfo, results)
    /\ pc' = "bench_done"
    /\ UNCHANGED <<st_values, st_visits, st_sets, agents, env, max_episode,
                   epsilon, alpha, i, start_mark, state, reward, nrandom,
                   terminals, model_file, before_save>>
    /\ UNCHANGED <<call_vars, grid_vars, bench_vars>>

NextBench ==
    \/ Next
    \/ BenchSetup
    \/ BenchStart
    \/ BenchTurnBase
    \/ BenchTurnTD
    \/ BenchRotate
    \/ BenchReport

SpecBench == InitBench /\ [][NextBench]_vars

----------------------------------------------------------------------------
\* gridsearch: one training and benchmark per combination of the grid, run
\* by the workers of a multiprocessing.Pool, polled by the parent.

MaxGrid == 3  \* values taken from the head of each range of the grid
MaxTrials == 6  \* combinations in the grid
MaxProcs == 2  \* largest os.cpu_count()
MaxFailAt == 2  \* the trial that fails is one of the first MaxFailAt

\* list(range(start, stop, step)) for a positive step
Range(start, stop, step) ==
    [k \in 1..((stop - start + step - 1) \div step) |-> start + (k - 1) * step]

Map100(r) == [k \in DOMAIN r |-> r[k] * (UNIT \div 100)]
Map10(r) == [k \in DOMAIN r |-> r[k] * (UNIT \div 10)]

\* the ranges of the grid: epsilons, alphas, episodes
GridRanges(test_mode) ==
    IF test_mode
    THEN [epsilons |-> Map100(Range(9, 13, 2)),
          alphas   |-> Map10(Range(4, 6, 1)),
          episodes |-> Range(1000, 2000, 300)]
    ELSE [epsilons |-> Map100(Range(8, 25, 2)),
          alphas   |-> Map10(Range(2, 8, 1)),
          episodes |-> Range(8000, 31000, 3000)]

\* the search is run with --test-mode: the ranges of the full search are
\* longer, and cut at MaxGrid all the same
TestModes == {TRUE}

\* 'gsmodels/model_{:03d}.dat'.format(n)
Format03d(n) ==
    LET d == FormatInt(n)
    IN  IF Len(d) >= 3 THEN d
        ELSE [k \in 1..(3 - Len(d)) |-> "0"] \o d

\* the mutated file name numbers the trials modulo two
ModelFileName_Mod(n) == <<"gsmodels/model_">> \o Format03d(n % 2) \o <<".dat">>

ModelFileName(n) == <<"gsmodels/model_">> \o Format03d(n) \o <<".dat">>

MAX_BENCH == 1000

\* args of gridsearch: product(episodes, epsilons, alphas), the last range
\* varying fastest, each with the bench count, the file name and show=False
GridArgs(es, xs, as) ==
    [k \in 1..(Len(es) * Len(xs) * Len(as)) |->
        [max_episode       |-> es[((k - 1) \div (Len(xs) * Len(as))) + 1],
         max_bench_episode |-> MAX_BENCH,
         epsilon           |-> xs[(((k - 1) \div Len(as)) % Len(xs)) + 1],
         alpha             |-> as[((k - 1) % Len(as)) + 1],
         model_file        |-> ModelFileName(k - 1),
         show              |-> FALSE]]

\* Pool._map_async: the chunk size taken when none is given
ChunkSize(n, procs) ==
    IF n = 0 THEN 0
    ELSE (n \div (procs * 4)) + (IF n % (procs * 4) # 0 THEN 1 ELSE 0)

NumChunks(n, c) ==
    IF c <= 0 THEN 0 ELSE (n \div c) + (IF n % c # 0 THEN 1 ELSE 0)

\* the trials (numbered from 0) of chunk c
ChunkLen(n, c, size) == Min2(size, n - c * size)

None == [type |-> "None"]

\* MapResult.__init__
MapResult(size, n) ==
    [chunksize   |-> size,
     number_left |-> NumChunks(n, size),
     success     |-> TRUE,
     value       |-> [k \in 1..n |-> None],
     error       |-> NoError,
     ready       |-> NumChunks(n, size) = 0]

\* the mutated _set appends a chunk's results after those already there
MapSet_Arrival(res, c, ok, val) ==
    LET left == res.number_left - 1
        used == Cardinality({k \in DOMAIN res.value : res.value[k] # None})
    IN  IF ok /\ res.success
        THEN [res EXCEPT !.number_left = left,
                         !.value = [k \in DOMAIN res.value |->
                                      IF k > used /\ k <= used + Len(val)
                                      THEN val[k - used]
                                      ELSE res.value[k]],
                         !.ready = (left = 0)]
        ELSE IF ~ok /\ res.success
        THEN [res EXCEPT !.number_left = left, !.success = FALSE,
                         !.value = <<>>, !.error = val, !.ready = (left = 0)]
        ELSE [res EXCEPT !.number_left = left, !.ready = (left = 0)]

\* MapResult._set(i, (success, result))
MapSet(res, c, ok, val) ==
    LET left == res.number_left - 1
        low  == c * res.chunksize
    IN  IF ok /\ res.success
        THEN [res EXCEPT !.number_left = left,
                         !.value = [k \in DOMAIN res.value |->
                                      IF k > low /\ k <= low + Len(val)
                                      THEN val[k - low]
                                      ELSE res.value[k]],
                         !.ready = (left = 0)]
        ELSE IF ~ok /\ res.success
        THEN [res EXCEPT !.number_left = left, !.success = FALSE,
                         !.value = <<>>, !.error = val, !.ready = (left = 0)]
        ELSE [res EXCEPT !.number_left = left, !.ready = (left = 0)]

\* the mutated ready() does not wait for the chunks
ResultReady_Always(res) == TRUE

\* result.ready()
ResultReady(res) == res.ready

Idle == [chunk |-> -1, pos |-> 0, out |-> <<>>]

\* the states a training run asks or sets the value of: the two openings and
\* the state after a first move
TrainTouch ==
    { {StateAfter("O", <<>>), StateAfter("X", <<>>), StateAfter("O", <<0>>)} }

\* the states the greedy agent of the benchmark asks the value of
BenchTouch == { StateAfter("O", <<0, 1>>) }

\* the line _bench returns: the metadata of the model file with the name of
\* the file (the tallies of the benchmark are left out)
BenchResult(arg) ==
    [type |-> "td", max_episode |-> arg.max_episode, epsilon |-> arg.epsilon,
     alpha |-> arg.alpha, model_file |-> arg.model_file]

Heads(s, n) == [k \in 1..n |-> s[k]]

\* gridsearch is entered: the ranges of the grid, the number of processors
\* and the trials that will fail are the inputs
InitGrid ==
    /\ st_values = EmptyFn
    /\ st_visits = EmptyFn
    /\ st_sets = EmptyFn
    /\ max_episode = 0
    /\ epsilon = EPSILON
    /\ alpha = ALPHA
    /\ agents = [m \in Marks |-> TDAgent(m, epsilon, alpha)]
    /\ env = [board |-> EmptyBoard, mark |-> "O", done |-> FALSE,
              start_mark |-> "O"]
    /\ pc = "grid"
    /\ i = 0
    /\ start_mark = "O"
    /\ state = NoState
    /\ reward = 0
    /\ nrandom = 0
    /\ terminals = {}
    /\ model_file = NoFile
    /\ minfo = NoInfo
    /\ before_save = EmptyStore
    /\ last_call = NoCall
    /\ ncalls = 0
    /\ results = <<>>
    /\ loaded = EmptyStore
    /\ \E test_mode \in TestModes :
       \E g \in {GridRanges(test_mode)} :
       \E ne \in 1..Min2(MaxGrid, Len(g.episodes)),
          nx \in 1..Min2(MaxGrid, Len(g.epsilons)),
          na \in 1..Min2(MaxGrid, Len(g.alphas)) :
            /\ ne * nx * na <= MaxTrials
            /\ episodes = Heads(g.episodes, ne)
            /\ epsilons = Heads(g.epsilons, nx)
            /\ alphas   = Heads(g.alphas, na)
    /\ nprocs \in 1..MaxProcs
    /\ failing \in {{}} \cup
            {{k} : k \in 0..(Min2(MaxFailAt, Len(episodes) * Len(epsilons)
                                                * Len(alphas)) - 1)}
    /\ g_pc = "start"
    /\ args = <<>>
    /\ total = 0 /\ prev_left = 0 /\ pbar_n = 0
    /\ tasks = <<>>
    /\ workers = <<>> /\ wstore = <<>>
    /\ dirty_start = FALSE /\ foreign_saved = FALSE
    /\ outqueue = <<>>
    /\ result = NoResult
    /\ results_file = <<>>
    /\ model_files = {}
    /\ raised = NoError
    /\ completed = 0 /\ polled = 0
    /\ out_of_order = FALSE

\* lines 424-437: the arguments, the progress bar, the pool, starmap_async
Dispatch ==
    /\ g_pc = "start"
    /\ \E a \in {GridArgs(episodes, epsilons, alphas)} :
        /\ args' = a
        /\ total' = Len(a)
        /\ prev_left' = Len(a)
        /\ tasks' = [k \in 1..NumChunks(Len(a), ChunkSize(Len(a), nprocs)) |-> k - 1]
        /\ result' = MapResult(ChunkSize(Len(a), nprocs), Len(a))
    /\ pbar_n' = 0
    /\ workers' = [w \in 1..nprocs |-> Idle]
    /\ wstore' = [w \in 1..nprocs |-> {}]
    /\ g_pc' = "poll"
    /\ UNCHANGED <<episodes, epsilons, alphas, nprocs, failing, outqueue,
                   results_file, model_files, raised, dirty_start,
                   foreign_saved, completed, polled, out_of_order>>
    /\ UNCHANGED <<learn_vars, call_vars, bench_vars>>

\* a worker takes the next chunk off the task queue
TakeTask(w) ==
    /\ workers[w].chunk = -1
    /\ tasks # <<>>
    /\ workers' = [workers EXCEPT ![w] = [chunk |-> Head(tasks), pos |-> 0,
                                          out |-> <<>>]]
    /\ tasks' = Tail(tasks)
    /\ UNCHANGED <<episodes, epsilons, alphas, nprocs, failing, g_pc, args,
                   total, prev_left, pbar_n, wstore, outqueue, result,
                   results_file, model_files, raised, dirty_start,
                   foreign_saved, completed, polled, out_of_order>>
    /\ UNCHANGED <<learn_vars, call_vars, bench_vars>>

\* a worker runs _learnbench for the next trial of its chunk: _learn fills
\* the store of the process and saves it, _bench loads the file into the
\* same store and plays. A trial that raises ends the chunk.
RunTrial(w) ==
    /\ workers[w].chunk >= 0
    /\ LET c    == workers[w].chunk
           p    == workers[w].pos
           k    == c * result.chunksize + p
           arg  == args[k + 1]
           last == p + 1 = ChunkLen(total, c, result.chunksize)
       IN  \E touched \in TrainTouch :
            IF k \in failing
            THEN /\ wstore' = [wstore EXCEPT ![w] = @ \cup touched]
                 /\ dirty_start' = (dirty_start \/ wstore[w] # {})
                 /\ UNCHANGED foreign_saved
                 /\ outqueue' = Append(outqueue,
                        [chunk |-> c, ok |-> FALSE,
                         val |-> [error |-> "IOError", trials |-> {}],
                         ran |-> p + 1])
                 /\ workers' = [workers EXCEPT ![w] = Idle]
                 /\ UNCHANGED model_files
            ELSE /\ wstore' = [wstore EXCEPT ![w] = @ \cup touched \cup BenchTouch]
                 /\ dirty_start' = (dirty_start \/ wstore[w] # {})
                 /\ foreign_saved' =
                        (foreign_saved \/ ~(wstore[w] \cup touched \subseteq touched))
                 /\ model_files' = model_files \cup {arg.model_file}
                 /\ IF last
                    THEN /\ outqueue' = Append(outqueue,
                                [chunk |-> c, ok |-> TRUE,
                                 val |-> Append(workers[w].out, BenchResult(arg)),
                                 ran |-> p + 1])
                         /\ workers' = [workers EXCEPT ![w] = Idle]
                    ELSE /\ workers' = [workers EXCEPT ![w] =
                                [chunk |-> c, pos |-> p + 1,
                                 out |-> Append(workers[w].out,
                                                BenchResult(arg))]]
                         /\ UNCHANGED outqueue
    /\ UNCHANGED <<episodes, epsilons, alphas, nprocs, failing, g_pc, args,
                   total, prev_left, pbar_n, tasks, result, results_file,
                   raised, completed, polled, out_of_order>>
    /\ UNCHANGED <<learn_vars, call_vars, bench_vars>>

\* the result handler thread of the parent passes the result of a chunk on
\* to the MapResult
HandleResult ==
    /\ outqueue # <<>>
    /\ LET m == Head(outqueue)
       IN  /\ result' = MapSet(result, m.chunk, m.ok, m.val)
           /\ completed' = completed + m.ran
           /\ out_of_order' =
                (out_of_order \/
                 (result.success /\
                  \E k \in 1..(m.chunk * result.chunksize) :
                        result.value[k] = None))
    /\ outqueue' = Tail(outqueue)
    /\ UNCHANGED <<episodes, epsilons, alphas, nprocs, failing, g_pc, args,
                   total, prev_left, pbar_n, tasks, workers, wstore,
                   results_file, model_files, raised, dirty_start,
                   foreign_saved, polled>>
    /\ UNCHANGED <<learn_vars, call_vars, bench_vars>>

\* line 439: if result.ready(): break
PollReady ==
    /\ g_pc = "poll"
    /\ g_pc' = IF ResultReady(result) THEN "exit" ELSE "compare"
    /\ UNCHANGED <<episodes, epsilons, alphas, nprocs, failing, args, total,
                   prev_left, pbar_n, tasks, workers, wstore, outqueue,
                   result, results_file, model_files, raised, dirty_start,
                   foreign_saved, completed, polled, out_of_order>>
    /\ UNCHANGED <<learn_vars, call_vars, bench_vars>>

\* line 441: if prev_left != result._number_left; line 445 when they agree
PollCompare ==
    /\ g_pc = "compare"
    /\ IF prev_left # result.number_left
       THEN g_pc' = "count" /\ UNCHANGED polled
       ELSE g_pc' = "poll" /\ polled' = completed
    /\ UNCHANGED <<episodes, epsilons, alphas, nprocs, failing, args, total,
                   prev_left, pbar_n, tasks, workers, wstore, outqueue,
                   result, results_file, model_files, raised, dirty_start,
                   foreign_saved, completed, out_of_order>>
    /\ UNCHANGED <<learn_vars, call_vars, bench_vars>>

\* lines 442-443: ucnt = prev_left - result._number_left; pbar.update(ucnt)
PollCount ==
    /\ g_pc = "count"
    /\ pbar_n' = pbar_n + (prev_left - result.number_left)
    /\ polled' = completed
    /\ g_pc' = "remember"
    /\ UNCHANGED <<episodes, epsilons, alphas, nprocs, failing, args, total,
                   prev_left, tasks, workers, wstore, outqueue, result,
                   results_file, model_files, raised, dirty_start,
                   foreign_saved, completed, out_of_order>>
    /\ UNCHANGED <<learn_vars, call_vars, bench_vars>>

\* lines 444-445: prev_left = result._number_left; time.sleep(1)
PollRemember ==
    /\ g_pc = "remember"
    /\ prev_left' = result.number_left
    /\ g_pc' = "poll"
    /\ UNCHANGED <<episodes, epsilons, alphas, nprocs, failing, args, total,
                   pbar_n, tasks, workers, wstore, outqueue, result,
                   results_file, model_files, raised, dirty_start,
                   foreign_saved, completed, polled, out_of_order>>
    /\ UNCHANGED <<learn_vars, call_vars, bench_vars>>

\* lines 447-449: the last update of the progress bar
FinalUpdate ==
    /\ g_pc = "exit"
    /\ pbar_n' = pbar_n + (prev_left - result.number_left)
    /\ polled' = completed
    /\ g_pc' = "write"
    /\ UNCHANGED <<episodes, epsilons, alphas, nprocs, failing, args, total,
                   prev_left, tasks, workers, wstore, outqueue, result,
                   results_file, model_files, raised, dirty_start,
                   foreign_saved, completed, out_of_order>>
    /\ UNCHANGED <<learn_vars, call_vars, bench_vars>>

\* lines 450-453: the results file is opened for writing and result.get()
\* waits for the last chunk and gives the lines, or raises what the first
\* failed chunk raised
WriteResults ==
    /\ g_pc = "write"
    /\ result.ready
    /\ IF result.success
       THEN /\ results_file' = result.value
            /\ g_pc' = "done"
            /\ UNCHANGED raised
       ELSE /\ results_file' = <<>>
            /\ g_pc' = "raised"
            /\ raised' = result.error
    /\ UNCHANGED <<episodes, epsilons, alphas, nprocs, failing, args, total,
                   prev_left, pbar_n, tasks, workers, wstore, outqueue,
                   result, model_files, dirty_start, foreign_saved,
                   completed, polled, out_of_order>>
    /\ UNCHANGED <<learn_vars, call_vars, bench_vars>>

Worker == \E w \in DOMAIN workers : TakeTask(w) \/ RunTrial(w)

Parent ==
    \/ Dispatch
    \/ PollReady
    \/ PollCompare
    \/ PollCount
    \/ PollRemember
    \/ FinalUpdate
    \/ WriteResults

NextGrid ==
    \/ Parent
    \/ Worker
    \/ HandleResult

SpecGrid == InitGrid /\ [][NextGrid]_vars

\* the operating system runs every process and thread that can take a step
SpecGridFair ==
    /\ InitGrid
    /\ [][NextGrid]_vars
    /\ WF_vars(Parent)
    /\ WF_vars(Worker)
    /\ WF_vars(HandleResult)

----------------------------------------------------------------------------
\* The claims about training and the model file, checked under Spec.

\* C7: after any completed training episode the value stored for the final
\* state of that episode (the state the last step returned) equals the
\* reward of that episode; it stays so for the rest of the run.
C7_TerminalAnchor ==
    \A t \in terminals :
        /\ t[1] \in DOMAIN st_values
        /\ st_values[t[1]] = t[2] * UNIT

\* an episode has just ended, and the run has seen a win of O, a win of X
\* and a draw
C7_Witness ==
    /\ pc = "rotate"
    /\ {t[2] : t \in terminals} = {O_REWARD, X_REWARD, NO_REWARD}

\* C10: save_model followed by load_model reproduces, for every state that
\* was in the store before saving, the same value and visit count, and the
\* same metadata.
C10_RoundTrip ==
    pc = "loaded" =>
        /\ \A s \in DOMAIN before_save.values :
            /\ s \in DOMAIN st_values
            /\ st_values[s] = before_save.values[s]
            /\ st_visits[s] = before_save.visits[s]
        /\ minfo = [type |-> "td", max_episode |-> max_episode,
                    epsilon |-> epsilon, alpha |-> alpha]


----------------------------------------------------------------------------
\* The claims about ask_value, checked under SpecCalls.

LastAsked == last_call.op = "ask_value"

LastFresh == last_call.state \notin DOMAIN last_call.before.values

\* C8: ask_value on a state that is not in the store and whose board is not
\* a win returns DEFAULT_VALUE and leaves its visit count at 1; ask_value on
\* a state that is in the store returns the stored value and changes no
\* value and no visit count.
C8_DefaultValue ==
    LastAsked =>
        LET s == last_call.state
            b == last_call.before
        IN  /\ (LastFresh /\ check_game_status(s[1]) <= 0) =>
                    /\ last_call.ret = DEFAULT_VALUE
                    /\ st_values[s] = DEFAULT_VALUE
                    /\ st_visits[s] = 1
            /\ ~LastFresh =>
                    /\ last_call.ret = b.values[s]
                    /\ st_values = b.values
                    /\ st_visits = b.visits

\* ask_value has been called on a state that an earlier ask_value put into
\* the store with the default value
C8_Witness ==
    /\ LastAsked
    /\ ~LastFresh
    /\ check_game_status(last_call.state[1]) <= 0
    /\ last_call.before.visits[last_call.state] = 1
    /\ last_call.before.values[last_call.state] = DEFAULT_VALUE

\* C9: for a state that is not in the store, ask_value initializes the
\* value to the asking agent's reward only when the board is a win for that
\* agent's own mark, and to DEFAULT_VALUE for every other state (a win of the
\* other mark, a draw, a game in progress).
C9_OwnWinOnly ==
    (LastAsked /\ LastFresh) =>
        LET s == last_call.state
            m == last_call.mark
        IN  last_call.ret =
                IF check_game_status(s[1]) = tocode(m)
                THEN (IF m = "O" THEN O_REWARD ELSE X_REWARD) * UNIT
                ELSE DEFAULT_VALUE

----------------------------------------------------------------------------
\* The claims about gridsearch, checked under SpecGrid and SpecGridFair.

NumTrials == Len(episodes) * Len(epsilons) * Len(alphas)

Dispatched == g_pc \in {"poll", "compare", "count", "remember", "exit",
                        "write", "done", "raised"}

LoopExited == g_pc \in {"exit", "write", "done", "raised"}

\* a trial is pending while its chunk waits in the task queue, runs in a
\* worker or is on its way to the parent
TrialPending ==
    \/ tasks # <<>>
    \/ \E w \in DOMAIN workers : workers[w].chunk >= 0
    \/ outqueue # <<>>
    \/ result.number_left > 0

\* C1: every trial of the grid search starts its training with an empty
\* store, and the model it saves holds only states this trial itself asked
\* or set, however the trials fall to the worker processes.
C1_IsolatedStore == ~dirty_start /\ ~foreign_saved

\* C2: when one trial fails the search is not aborted: the results of all
\* other trials are written to the results file and the failed trial is
\* reported with its trial index and its error.
C2_FailureReported ==
    (g_pc \in {"done", "raised"} /\ failing # {}) =>
        /\ g_pc = "done"
        /\ \A k \in (0..(total - 1)) \ failing :
            \E n \in DOMAIN results_file :
                results_file[n] = BenchResult(args[k + 1])
        /\ \A k \in failing : k \in raised.trials /\ raised.error = "IOError"

\* C3: for E episode counts, Eps epsilons and A alphas gridsearch dispatches
\* exactly E*Eps*A trials, no two trials share the name of their model file,
\* and after completion the results file holds exactly E*Eps*A lines.
C3_Complete ==
    Dispatched =>
        /\ Len(args) = NumTrials
        /\ total = NumTrials
        /\ Len(result.value) = NumTrials \/ ~result.success
        /\ \A a, b \in DOMAIN args :
                a # b => args[a].model_file # args[b].model_file
        /\ g_pc = "done" =>
            /\ Len(results_file) = NumTrials
            /\ Cardinality(model_files) = NumTrials

\* the search of the largest grid has completed
C3_Witness ==
    /\ g_pc = "done"
    /\ NumTrials = MaxTrials
    /\ Len(results_file) = NumTrials

\* C4: no line is written to the results file before the result of every
\* trial is available, and the i-th line written is the result of the i-th
\* trial submitted, in whatever order the workers finish.
C4_SubmissionOrder ==
    results_file # <<>> =>
        /\ ~TrialPending
        /\ Len(results_file) = Len(args)
        /\ \A n \in DOMAIN results_file :
                results_file[n] = BenchResult(args[n])

\* the file is written although a later chunk came in before an earlier one
C4_Witness ==
    /\ g_pc = "done"
    /\ out_of_order
    /\ results_file # <<>>

\* C5: the progress counter never decreases, each poll advances it by the
\* number of trials that completed since the poll before, and it equals the
\* number of trials once the loop has exited.
C5_Progress ==
    /\ g_pc \in {"count", "exit"} => prev_left >= result.number_left
    /\ pbar_n = polled
    /\ g_pc \in {"write", "done", "raised"} => pbar_n = total

\* C6: the polling loop exits in the end and the results get written, and the
\* loop is never left while a trial is pending.
C6_LoopExits ==
    /\ <>LoopExited
    /\ (failing = {}) ~> (g_pc = "done" /\ Len(results_file) = NumTrials)
    /\ [](LoopExited => ~TrialPending)

\* the loop has polled, slept, counted and been left; the results are written
C6_Witness ==
    /\ g_pc = "done"
    /\ pbar_n = total
    /\ completed = total
    /\ nprocs = MaxProcs

----------------------------------------------------------------------------
\* The claims about repeated backups, checked under SpecBackup.

LastBackup == last_call.op = "backup"

\* value(state) before the last backup, value(nextState), value(state) after
BackupFrom == last_call.before.values[last_call.state]
BackupNext == last_call.before.values[last_call.next]
BackupTo == st_values[last_call.state]

----------------------------------------------------------------------------
\* The claims about greedy_action, checked under SpecGreedy.

LastGreedy == last_call.op = "greedy_action"

\* the legal actions of the last call
GreedyActions == {last_call.actions[k] : k \in DOMAIN last_call.actions}

\* the value of the next state of action a, as the call found or set it
NextValue(a) == st_values[after_action_state(last_call.state, a)]

\* action a is at least as good for the asking agent as action b
AsGoodAs(a, b) ==
    IF last_call.mark = "O" THEN NextValue(a) >= NextValue(b)
    ELSE NextValue(a) <= NextValue(b)

\* the legal actions whose next-state value attains the optimum
BestActions == {a \in GreedyActions : \A b \in GreedyActions : AsGoodAs(a, b)}

\* C12: greedy_action only ever returns an action whose next-state value is
\* the maximum (mark 'O') or the minimum (any other mark) over the legal
\* actions; if exactly one action attains it, that action is returned
\* whatever random.choice draws.
C12_GreedyOptimum ==
    (LastGreedy /\ last_call.actions # <<>>) =>
        /\ Len(last_call.returned) = 1
        /\ last_call.returned[1] \in BestActions
        /\ Cardinality(BestActions) = 1 =>
                BestActions = {last_call.returned[1]}

\* O asked with several legal actions, one of them the only best
C12_Witness ==
    /\ LastGreedy
    /\ last_call.mark = "O"
    /\ Len(last_call.actions) > 2
    /\ Cardinality(BestActions) = 1
    /\ last_call.returned = <<CHOOSE a \in BestActions : TRUE>>

\* C13: greedy_action called with an empty list of legal actions fails with
\* an error, returns no action, and leaves values and visit counts as they
\* were.
C13_EmptyActions ==
    (LastGreedy /\ last_call.actions = <<>>) =>
        /\ last_call.error # "none"
        /\ last_call.returned = <<>>
        /\ st_values = last_call.before.values
        /\ st_visits = last_call.before.visits

\* the call with the empty list was made on a state the store does not hold
C13_Witness ==
    /\ LastGreedy
    /\ last_call.actions = <<>>
    /\ last_call.error = "AssertionError"
    /\ last_call.state \notin DOMAIN st_values
    /\ DOMAIN st_values # {}

----------------------------------------------------------------------------
\* The exploration probability over the episodes of a training run, checked
\* under Spec.

\* the right-hand side of egreedy_policy's test, the same for both agents
ExploreProb == FMul(agents["O"].epsilon, agents["O"].episode_rate)

\* the step that starts an episode after the first
LaterEpisodeStarts == pc = "episode" /\ i >= 1 /\ pc' = "turn"

\* C14: across the episodes of one training run the exploration probability
\* epsilon * episode_rate is never larger in a later episode than in the
\* episode before it.
C14_Anneals == [][LaterEpisodeStarts => ExploreProb' <= ExploreProb]_vars

----------------------------------------------------------------------------
\* The claim about load_model on malformed lines, checked under SpecLoad.

LastLine == last_call.op = "load_line"

\* C15: a state line with fewer or more than three tab-separated fields
\* makes load_model report an error and stop, the line neither skipped nor
\* accepted: the store is as it was before the line.
C15_WrongFieldCount ==
    (LastLine /\ Len(last_call.elms) # 3) =>
        /\ last_call.error # "none"
        /\ pc = "load_failed"
        /\ st_values = last_call.before.values
        /\ st_visits = last_call.before.visits

----------------------------------------------------------------------------
\* The claims about the store over a training run, checked under Spec.

\* _learn is running: the loop over the episodes, up to save_model
Training == pc \in {"episode", "turn", "rotate"}

\* C17: at every point of a training run with alpha in [0, 1] started from
\* an empty store, every value in st_values is within [-1, 1].
C17_ValuesInRange ==
    Training => \A s \in DOMAIN st_values :
                    -UNIT <= st_values[s] /\ st_values[s] <= UNIT

\* training has stored a reward at one end of the range and, by backups, a
\* value strictly inside it
C17_Witness ==
    /\ Training
    /\ \E s \in DOMAIN st_values : Abs(st_values[s]) = UNIT
    /\ \E s \in DOMAIN st_values :
            0 < Abs(st_values[s]) /\ Abs(st_values[s]) < UNIT

\* the states with a value are the states with a visit count, and the count
\* of each is the number of calls of set_state_value made on it
VisitsAreSets ==
    /\ DOMAIN st_values = DOMAIN st_visits
    /\ DOMAIN st_visits = DOMAIN st_sets
    /\ \A s \in DOMAIN st_visits : st_visits[s] = st_sets[s] /\ st_visits[s] >= 1

\* C18: throughout a training run started from an empty store the states
\* with a value are exactly the states with a visit count, the visit count
\* of each is the number of set_state_value calls made on it so far (the
\* default insert included, hence at least 1), and no state is ever removed.
C18_VisitsCountSets ==
    /\ [](Training => VisitsAreSets)
    /\ [][Training => DOMAIN st_values \subseteq DOMAIN st_values']_vars

\* a state has been set several times, others only once
C18_Witness ==
    /\ Training
    /\ \E s \in DOMAIN st_visits : st_visits[s] >= 3
    /\ \E s \in DOMAIN st_visits : st_visits[s] = 1

----------------------------------------------------------------------------
\* The claims about _bench, checked under SpecBench.

\* _bench is past its load_model
Benching == pc \in {"bench_episode", "bench_turn", "bench_rotate", "bench_done"}

\* C16: a benchmark of N episodes records exactly one terminal reward per
\* episode done, and the base_win, td_win and draw it reports sum to N.
C16_OneResultPerEpisode ==
    /\ pc \in {"bench_episode", "bench_turn"} => Len(results) = i
    /\ pc = "bench_rotate" => Len(results) = i + 1
    /\ pc = "bench_done" =>
            /\ Len(results) = max_episode
            /\ minfo.base_win + minfo.td_win + minfo.draw = max_episode

\* a benchmark of several episodes has reported, each side having won one
C16_Witness ==
    /\ pc = "bench_done"
    /\ max_episode = MaxBench
    /\ minfo.base_win >= 1
    /\ minfo.td_win >= 1

\* the first turn of an episode of training or of the benchmark
EpisodeBegins == pc \in {"turn", "bench_turn"} /\ env.board = EmptyBoard

\* C19: in training and in benchmarking alike the k-th episode, k = i + 1,
\* starts with 'O' when k is odd and with 'X' when k is even.
C19_StartAlternates ==
    EpisodeBegins => env.mark = (IF i % 2 = 0 THEN "O" ELSE "X")

\* after a training of one episode, which leaves start_mark at 'X', the
\* second episode of the benchmark begins, with 'X'
C19_Witness ==
    /\ pc = "bench_turn"
    /\ env.board = EmptyBoard
    /\ i = 1
    /\ env.mark = "X"
    /\ minfo.max_episode = 1

\* C20: a benchmark does no learning.  Every state load_model left in the
\* store keeps its value and its visit count; a state the store gained is a
\* successor the TD agent examined, inserted once with the value ask_value
\* gives a new state; and the TD agent never takes the exploring branch.
C20_NoLearning ==
    Benching =>
        /\ \A s \in DOMAIN loaded.values :
                /\ s \in DOMAIN st_values
                /\ st_values[s] = loaded.values[s]
                /\ st_visits[s] = loaded.visits[s]
        /\ \A s \in DOMAIN st_values \ DOMAIN loaded.values :
                /\ s[2] = "O"
                /\ st_values[s] = InitialValue("X", s)
                /\ st_visits[s] = 1
        /\ last_call.op = "act" => ~last_call.explored

\* the benchmark is over, the store holds what was loaded and states the TD
\* agent met for the first time
C20_Witness ==
    /\ pc = "bench_done"
    /\ max_episode = MaxBench
    /\ DOMAIN loaded.values # {}
    /\ DOMAIN st_values \ DOMAIN loaded.values # {}
    /\ last_call.op = "act"

====
